---- MODULE Spec2Model ----
(***************************************************************************)
(* Model of scripts/binance_buyer.go: the duration parser, the pre-flight  *)
(* checks and the time-sliced order loops of main().                       *)
(*                                                                         *)
(* Amounts are Go float64 values.  They are modelled bit-exactly: a float  *)
(* is a sign, a 53-bit mantissa and a binary exponent, and every float64   *)
(* operation of the source rounds to nearest, ties to even, as IEEE-754    *)
(* binary64 does.  Mantissas and int64 values are unbounded naturals held  *)
(* as little-endian sequences of limbs.                                    *)
(***************************************************************************)
EXTENDS Integers, Sequences, FiniteSets, TLC

(***************************************************************************)
(* Unbounded naturals: little-endian sequences of limbs of LimbBits bits,  *)
(* the highest limb non-zero.  Zero is the empty sequence.  Bits are       *)
(* numbered from 1, the lowest.                                            *)
(***************************************************************************)
\* the element of a one-element set; The({e : v \in {x}}) is e with x
\* evaluated once and named v
The(S) == CHOOSE r \in S : TRUE

\* limbs are small enough for the product of two to be an integer of the model
Base == 2 ^ 15

\* the number of bits of a limb
LimbBits == CHOOSE n \in 1 .. 30 : 2 ^ n = Base

Zeros(n) == [k \in 1 .. n |-> 0]

\* the index of the highest non-zero limb of b, 0 when there is none
BTop(b) ==
    IF \A k \in 1 .. Len(b) : b[k] = 0 THEN 0
    ELSE CHOOSE k \in 1 .. Len(b) : b[k] # 0 /\ \A l \in (k + 1) .. Len(b) : b[l] = 0

\* b without its high zero limbs
BNorm(b) == SubSeq(b, 1, BTop(b))

RECURSIVE BFromNat(_)
BFromNat(n) == IF n = 0 THEN << >> ELSE <<n % Base>> \o BFromNat(n \div Base)

\* the value of a natural small enough for an integer of the model
RECURSIVE BToNat(_)
BToNat(b) == IF b = << >> THEN 0 ELSE b[1] + Base * BToNat(Tail(b))

\* the number of bits of the limb x
LimbLen(x) == CHOOSE n \in 0 .. LimbBits : x < 2 ^ n /\ (n = 0 \/ x >= 2 ^ (n - 1))

\* the number of bits of b
BLen(b) == IF b = << >> THEN 0 ELSE LimbBits * (Len(b) - 1) + LimbLen(b[Len(b)])

\* bit k of b
BBit(b, k) ==
    IF k >= 1 /\ (k - 1) \div LimbBits + 1 <= Len(b)
    THEN (b[(k - 1) \div LimbBits + 1] \div (2 ^ ((k - 1) % LimbBits))) % 2
    ELSE 0

BIsOdd(b) == b # << >> /\ b[1] % 2 = 1

\* limb k of b, zero above its length
BLimb(b, k) == IF k >= 1 /\ k <= Len(b) THEN b[k] ELSE 0

\* the highest limb at which a and b, of one length, differ
BCmpTop(a, b) ==
    CHOOSE k \in 1 .. Len(a) : a[k] # b[k] /\ \A l \in (k + 1) .. Len(a) : a[l] = b[l]

\* -1, 0 or 1 as a < b, a = b, a > b
BCmp(a, b) ==
    IF Len(a) > Len(b) THEN 1
    ELSE IF Len(a) < Len(b) THEN -1
    ELSE IF a = b THEN 0
    ELSE IF a[BCmpTop(a, b)] > b[BCmpTop(a, b)] THEN 1
    ELSE -1

\* the carry into limb k of a + b: a lower limb overflows and the limbs
\* between pass the carry on
BCarry(a, b, k) ==
    \E j \in 1 .. (k - 1) :
        /\ BLimb(a, j) + BLimb(b, j) >= Base
        /\ \A l \in (j + 1) .. (k - 1) : BLimb(a, l) + BLimb(b, l) = Base - 1

BAddAt(a, b, k) ==
    (BLimb(a, k) + BLimb(b, k) + (IF BCarry(a, b, k) THEN 1 ELSE 0)) % Base

BAddLimbs(a, b, n) == BNorm([k \in 1 .. n |-> BAddAt(a, b, k)])

BAdd(a, b) == BAddLimbs(a, b, (IF Len(a) > Len(b) THEN Len(a) ELSE Len(b)) + 1)

\* the borrow from limb k of a - b
BBorrow(a, b, k) ==
    \E j \in 1 .. (k - 1) :
        /\ a[j] < BLimb(b, j)
        /\ \A l \in (j + 1) .. (k - 1) : a[l] = BLimb(b, l)

BSubAt(a, b, k) == (a[k] - BLimb(b, k) - (IF BBorrow(a, b, k) THEN 1 ELSE 0)) % Base

\* a - b for a >= b
BSub(a, b) == BNorm([k \in 1 .. Len(a) |-> BSubAt(a, b, k)])

\* a * n for a limb-sized n: the low halves of the limb products plus their
\* high halves one limb up
BMulLimb(a, n) ==
    BAdd([k \in 1 .. Len(a) |-> (a[k] * n) % Base],
         <<0>> \o [k \in 1 .. Len(a) |-> (a[k] * n) \div Base])

\* a * Base
BUp(a) == IF a = << >> THEN << >> ELSE <<0>> \o a

RECURSIVE BMulFrom(_, _, _)
BMulFrom(a, b, k) ==
    IF k > Len(b) THEN << >>
    ELSE The({BAdd(BUp(hi), BMulLimb(a, b[k])) : hi \in {BMulFrom(a, b, k + 1)}})

BMul(a, b) == IF a = << >> \/ b = << >> THEN << >> ELSE BNorm(BMulFrom(a, b, 1))

\* a * 2^n
BShl(b, n) ==
    IF b = << >> THEN << >>
    ELSE Zeros(n \div LimbBits) \o BMulLimb(b, 2 ^ (n % LimbBits))

\* limb k of floor(b / 2^(LimbBits * q + r))
BShrAt(b, q, r, k) ==
    b[k + q] \div (2 ^ r) + (BLimb(b, k + q + 1) % (2 ^ r)) * 2 ^ (LimbBits - r)

BShrLimbs(b, q, r) == BNorm([k \in 1 .. (Len(b) - q) |-> BShrAt(b, q, r, k)])

\* floor(b / 2^n)
BShr(b, n) ==
    IF n \div LimbBits >= Len(b) THEN << >>
    ELSE BShrLimbs(b, n \div LimbBits, n % LimbBits)

\* whether one of the n low bits of b is set
BAnyLow(b, n) ==
    \/ \E k \in 1 .. Len(b) : k <= n \div LimbBits /\ b[k] # 0
    \/ BLimb(b, n \div LimbBits + 1) % (2 ^ (n % LimbBits)) # 0

BLowLimbs(b, q, r) ==
    BNorm([k \in 1 .. (IF Len(b) < q + 1 THEN Len(b) ELSE q + 1) |->
              IF k <= q THEN b[k] ELSE b[k] % (2 ^ r)])

\* b mod 2^n
BLow(b, n) == BLowLimbs(b, n \div LimbBits, n % LimbBits)

(***************************************************************************)
(* Long division by a divisor d whose highest limb has its top bit set.    *)
(* Each quotient limb is at most two below its estimate from the two       *)
(* highest limbs of the running remainder.                                 *)
(***************************************************************************)
BDivEstimate(d, r) == (BLimb(r, Len(d) + 1) * Base + BLimb(r, Len(d))) \div d[Len(d)]

BDivDigit(d, r, top) ==
    CHOOSE c \in (top - 2) .. top :
        /\ c >= 0
        /\ BCmp(BMulLimb(d, c), r) <= 0
        /\ BCmp(BMulLimb(d, c + 1), r) > 0

BDivOut(d, r, qhi, q) == << <<q>> \o qhi, BSub(r, BMulLimb(d, q)) >>

BDivStep(d, r, qhi) ==
    The({BDivOut(d, r, qhi, q) : q \in
            {BDivDigit(d, r, IF BDivEstimate(d, r) > Base - 1
                             THEN Base - 1 ELSE BDivEstimate(d, r))}})

BDivNext(d, x, hi) == The({BDivStep(d, r, hi[1]) : r \in {BNorm(<<x>> \o hi[2])}})

\* the limbs k .. Len(a) of a divided by d: <<quotient limbs, remainder>>; the
\* Len(d) - 1 highest limbs of a are below d
RECURSIVE BDivFrom(_, _, _)
BDivFrom(a, d, k) ==
    IF k > Len(a) - (Len(d) - 1)
    THEN << << >>, BNorm(SubSeq(a, k, Len(a))) >>
    ELSE The({BDivNext(d, a[k], hi) : hi \in {BDivFrom(a, d, k + 1)}})

BDivUnshift(qr, n) == <<BNorm(qr[1]), BShr(qr[2], n)>>

BDivShifted(a, d, n) ==
    The({BDivUnshift(BDivFrom(an, dn, 1), n) : an \in {BShl(a, n)}, dn \in {BShl(d, n)}})

\* <<a div d, a mod d>> for d > 0
BDivMod(a, d) == BDivShifted(a, d, LimbBits - LimbLen(d[Len(d)]))

(***************************************************************************)
(* Signed integers: [s |-> 0 or 1 (negative), m |-> magnitude].            *)
(* Go's int and int64 (time.Duration) are 64 bits wide and wrap.           *)
(***************************************************************************)
IntBits == 64

ZMake(s, m) == [s |-> IF m = << >> THEN 0 ELSE s, m |-> m]

ZFromNat(n) == ZMake(0, BFromNat(n))

\* an int small enough for an integer of the model
ZToInt(z) == IF z.s = 1 THEN 0 - BToNat(z.m) ELSE BToNat(z.m)

\* 2^64
TwoToIntBits == Zeros(IntBits \div LimbBits) \o <<2 ^ (IntBits % LimbBits)>>

\* the two's complement value of the residue res in 0 .. 2^64 - 1
I64OfResidue(res) ==
    IF BBit(res, IntBits) = 1
    THEN ZMake(1, BSub(TwoToIntBits, res))
    ELSE ZMake(0, res)

\* the residue modulo 2^64 of the value with sign s and magnitude low < 2^64
I64Residue(s, low) == IF s = 0 \/ low = << >> THEN low ELSE BSub(TwoToIntBits, low)

\* the value of z reduced into the 64-bit two's complement range
I64Wrap(z) == I64OfResidue(I64Residue(z.s, BLow(z.m, IntBits)))

\* int64 multiplication
I64Mul(a, b) == The({I64Wrap(ZMake((a.s + b.s) % 2, m)) : m \in {BMul(a.m, b.m)}})

\* int64 division and remainder, truncated toward zero (b # 0)
I64Quo(a, b) == ZMake((a.s + b.s) % 2, BDivMod(a.m, b.m)[1])

I64Rem(a, b) == ZMake(a.s, BDivMod(a.m, b.m)[2])

(***************************************************************************)
(* float64: [k |-> "fin" | "inf" | "nan", s |-> sign, m |-> mantissa,      *)
(* e |-> exponent], the value (-1)^s * m * 2^e.  A finite non-zero value   *)
(* has a mantissa of exactly MantBits bits; zero has the empty mantissa.   *)
(* The amounts of the program stay far from the subnormal and overflow     *)
(* ranges, so the exponent is not bounded here.                            *)
(***************************************************************************)
MantBits == 53

FZero == [k |-> "fin", s |-> 0, m |-> << >>, e |-> 0]

FNaN == [k |-> "nan", s |-> 0, m |-> << >>, e |-> 0]

FInf(s) == [k |-> "inf", s |-> s, m |-> << >>, e |-> 0]

FFin(s, m, e) == [k |-> "fin", s |-> s, m |-> m, e |-> e]

\* a rounded-up mantissa of MantBits + 1 bits is 2^MantBits
FRoundCarry(s, m, e) ==
    IF BBit(m, MantBits + 1) = 1 THEN FFin(s, BShr(m, 1), e + 1) ELSE FFin(s, m, e)

\* the kept bits, up by one when the cut part is above half, or is half and
\* the kept bits are odd
FRoundUp(s, keep, e, guard, low) ==
    The({FRoundCarry(s, up, e) :
            up \in {IF guard = 1 /\ (low \/ BIsOdd(keep)) THEN BAdd(keep, <<1>>) ELSE keep}})

FRoundCut(s, m, e, sticky, n) ==
    The({FRoundUp(s, keep, e + n, BBit(m, n), sticky \/ BAnyLow(m, n - 1)) :
            keep \in {BShr(m, n)}})

FRoundLen(s, m, e, sticky, len) ==
    IF m = << >> THEN FZero
    ELSE IF len <= MantBits THEN FFin(s, BShl(m, MantBits - len), e - (MantBits - len))
    ELSE FRoundCut(s, m, e, sticky, len - MantBits)

\* (-1)^s * m * 2^e, plus a non-zero amount below the last bit of m when
\* sticky, rounded to the nearest float64, ties to even
FRound(s, m, e, sticky) == The({FRoundLen(s, mv, e, sticky, BLen(mv)) : mv \in {m}})

FIsZero(x) == x.k = "fin" /\ x.m = << >>

FNeg(x) == IF x.k = "nan" \/ FIsZero(x) THEN x ELSE [x EXCEPT !.s = 1 - x.s]

\* float64(n) for a signed integer n
FFromInt(z) == FRound(z.s, z.m, 0, FALSE)

FFromNat(n) == FFromInt(ZFromNat(n))

\* the magnitude of the sum of mx and my with signs sx and sy, c = BCmp(mx, my)
FAddMagnitude(sx, sy, mx, my, c) ==
    IF sx = sy THEN BAdd(mx, my)
    ELSE IF c >= 0 THEN BSub(mx, my)
    ELSE BSub(my, mx)

FAddCompared(sx, sy, mx, my, e, c) ==
    FRound(IF sx = sy \/ c >= 0 THEN sx ELSE sy, FAddMagnitude(sx, sy, mx, my, c), e, FALSE)

FAddAligned(sx, sy, mx, my, e) == FAddCompared(sx, sy, mx, my, e, BCmp(mx, my))

FAddAt(x, y, e) ==
    The({FAddAligned(x.s, y.s, mx, my, e) :
            mx \in {BShl(x.m, x.e - e)}, my \in {BShl(y.m, y.e - e)}})

\* x + y
FAdd(x, y) ==
    IF x.k = "nan" \/ y.k = "nan" THEN FNaN
    ELSE IF x.k = "inf"
    THEN (IF y.k = "inf" /\ y.s # x.s THEN FNaN ELSE x)
    ELSE IF y.k = "inf" THEN y
    ELSE IF FIsZero(x) THEN y
    ELSE IF FIsZero(y) THEN x
    ELSE FAddAt(x, y, IF x.e < y.e THEN x.e ELSE y.e)

\* x - y
FSub(x, y) == FAdd(x, FNeg(y))

\* x * y
FMul(x, y) ==
    IF x.k = "nan" \/ y.k = "nan" THEN FNaN
    ELSE IF x.k = "inf" \/ y.k = "inf"
    THEN (IF FIsZero(x) \/ FIsZero(y) THEN FNaN ELSE FInf((x.s + y.s) % 2))
    ELSE IF FIsZero(x) \/ FIsZero(y) THEN FZero
    ELSE The({FRound((x.s + y.s) % 2, m, x.e + y.e, FALSE) : m \in {BMul(x.m, y.m)}})

FDivRound(s, qr, e) == FRound(s, qr[1], e, qr[2] # << >>)

\* x / y
FDiv(x, y) ==
    IF x.k = "nan" \/ y.k = "nan" THEN FNaN
    ELSE IF x.k = "inf"
    THEN (IF y.k = "inf" THEN FNaN ELSE FInf((x.s + y.s) % 2))
    ELSE IF y.k = "inf" THEN FZero
    ELSE IF FIsZero(y)
    THEN (IF FIsZero(x) THEN FNaN ELSE FInf((x.s + y.s) % 2))
    ELSE IF FIsZero(x) THEN FZero
    ELSE The({FDivRound((x.s + y.s) % 2, qr, x.e - y.e - (MantBits + 2)) :
                 qr \in {BDivMod(BShl(x.m, MantBits + 2), y.m)}})

FIsNegative(d) == d.s = 1 /\ d.m # << >>

\* x < y
FLess(x, y) ==
    IF x.k = "nan" \/ y.k = "nan" THEN FALSE
    ELSE IF x.k = "inf" THEN x.s = 1 /\ ~(y.k = "inf" /\ y.s = 1)
    ELSE IF y.k = "inf" THEN y.s = 0
    ELSE FIsNegative(FSub(x, y))

\* x > y
FGreater(x, y) == FLess(y, x)

\* the integer part of a finite x, as a signed integer (toward zero)
FTruncZ(x) ==
    IF FIsZero(x) THEN ZMake(0, << >>)
    ELSE IF x.e >= 0 THEN ZMake(x.s, BShl(x.m, x.e))
    ELSE ZMake(x.s, BShr(x.m, 0 - x.e))

MathRoundUp(s, ip, half) == FRound(s, IF half = 1 THEN BAdd(ip, <<1>>) ELSE ip, 0, FALSE)

\* math.Round: the nearest integer, halves away from zero
MathRound(x) ==
    IF x.k # "fin" \/ FIsZero(x) \/ x.e >= 0 THEN x
    ELSE MathRoundUp(x.s, BShr(x.m, 0 - x.e), BBit(x.m, 0 - x.e))

\* an exact dyadic value m * 2^e (m >= 0), used to state sums without rounding
XOf(x) == [m |-> x.m, e |-> x.e]

XAdd(x, y) ==
    LET e0 == IF x.e < y.e THEN x.e ELSE y.e
    IN  [m |-> BAdd(BShl(x.m, x.e - e0), BShl(y.m, y.e - e0)), e |-> e0]

\* -1, 0 or 1 as x < y, x = y, x > y
XCmp(x, y) ==
    LET e0 == IF x.e < y.e THEN x.e ELSE y.e
    IN  BCmp(BShl(x.m, x.e - e0), BShl(y.m, y.e - e0))

XMulNat(x, n) == [m |-> BMul(x.m, BFromNat(n)), e |-> x.e]

(***************************************************************************)
(* Texts are sequences of one-character strings.                           *)
(***************************************************************************)
LowerLetters == <<"a", "b", "c", "d", "e", "f", "g", "h", "i", "j", "k", "l", "m",
                  "n", "o", "p", "q", "r", "s", "t", "u", "v", "w", "x", "y", "z">>

UpperLetters == <<"A", "B", "C", "D", "E", "F", "G", "H", "I", "J", "K", "L", "M",
                  "N", "O", "P", "Q", "R", "S", "T", "U", "V", "W", "X", "Y", "Z">>

Digits == <<"0", "1", "2", "3", "4", "5", "6", "7", "8", "9">>

UpperOf(c) ==
    IF \E i \in 1 .. Len(LowerLetters) : LowerLetters[i] = c
    THEN UpperLetters[CHOOSE i \in 1 .. Len(LowerLetters) : LowerLetters[i] = c]
    ELSE c

\* strings.ToUpper
RECURSIVE ToUpper(_)
ToUpper(s) == IF s = << >> THEN << >> ELSE <<UpperOf(Head(s))>> \o ToUpper(Tail(s))

\* strings.HasSuffix
HasSuffix(s, suffix) ==
    Len(s) >= Len(suffix) /\ SubSeq(s, Len(s) - Len(suffix) + 1, Len(s)) = suffix

\* strings.TrimSuffix
TrimSuffix(s, suffix) ==
    IF HasSuffix(s, suffix) THEN SubSeq(s, 1, Len(s) - Len(suffix)) ELSE s

IsDigit(c) == \E i \in 1 .. Len(Digits) : Digits[i] = c

DigitValue(c) == (CHOOSE i \in 1 .. Len(Digits) : Digits[i] = c) - 1

(***************************************************************************)
(* parseDuration                                                           *)
(***************************************************************************)
\* the unit characters the pattern ^(\d+)([smhHdDwWM])$ admits
PatternUnits == {"s", "m", "h", "H", "d", "D", "w", "W", "M"}

\* re.FindStringSubmatch: the three matches, or none
FindStringSubmatch(durationStr) ==
    IF /\ Len(durationStr) >= 2
       /\ durationStr[Len(durationStr)] \in PatternUnits
       /\ \A i \in 1 .. Len(durationStr) - 1 : IsDigit(durationStr[i])
    THEN <<durationStr,
           SubSeq(durationStr, 1, Len(durationStr) - 1),
           durationStr[Len(durationStr)]>>
    ELSE << >>

\* the decimal value of a digit string
RECURSIVE DecimalFrom(_, _, _)
DecimalFrom(ds, k, v) ==
    IF k > Len(ds) THEN v
    ELSE The({DecimalFrom(ds, k + 1, w) :
                 w \in {BAdd(BMulLimb(v, 10), BFromNat(DigitValue(ds[k])))}})

DecimalValue(ds) == DecimalFrom(ds, 1, << >>)

AtoiRange(v) ==
    IF BLen(v) >= IntBits
    THEN [err |-> TRUE, value |-> ZMake(0, << >>)]
    ELSE [err |-> FALSE, value |-> ZMake(0, v)]

\* strconv.Atoi of a digit string: out of range above 2^63 - 1
Atoi(ds) == AtoiRange(DecimalValue(ds))

\* time.Second, time.Minute, time.Hour in nanoseconds
Second == ZMake(0, BFromNat(1000000000))

Minute == ZMake(0, BMulLimb(Second.m, 60))

Hour == ZMake(0, BMulLimb(Minute.m, 60))

\* the factors the value is multiplied by, left to right, for each unit
UnitFactors(unit) ==
    IF unit = "s" THEN <<Second>>
    ELSE IF unit = "m" THEN <<Minute>>
    ELSE IF unit = "H" THEN <<Hour>>
    ELSE IF unit = "D" THEN <<ZFromNat(24), Hour>>
    ELSE IF unit = "W" THEN <<ZFromNat(7), ZFromNat(24), Hour>>
    ELSE IF unit = "M" THEN <<ZFromNat(30), ZFromNat(24), Hour>>
    ELSE << >>

\* value * f[1] * ... * f[n] in int64
RECURSIVE I64Product(_, _)
I64Product(value, f) ==
    IF f = << >> THEN value
    ELSE The({I64Product(v, Tail(f)) : v \in {I64Mul(value, Head(f))}})

DurationOf(a, unit) ==
    IF a.err \/ UnitFactors(unit) = << >>
    THEN [err |-> TRUE, duration |-> ZFromNat(0)]
    ELSE [err |-> FALSE, duration |-> I64Product(a.value, UnitFactors(unit))]

ParseMatches(matches) ==
    IF Len(matches) # 3
    THEN [err |-> TRUE, duration |-> ZFromNat(0)]
    ELSE DurationOf(Atoi(matches[2]), matches[3])

parseDuration(durationStr) == ParseMatches(FindStringSubmatch(durationStr))

\* time.Duration.Seconds
Seconds(d) ==
    FAdd(FFromInt(I64Quo(d, Second)),
         FDiv(FFromInt(I64Rem(d, Second)), FFromNat(1000000000)))

Sprintf8Round(s, n, ip, r) ==
    [k |-> "fin", s |-> s,
     m |-> IF BBit(n, r) = 1 /\ (BAnyLow(n, r - 1) \/ BIsOdd(ip)) THEN BAdd(ip, <<1>>) ELSE ip]

Sprintf8Scaled(x, n) ==
    IF x.e >= 0 THEN [k |-> "fin", s |-> x.s, m |-> BShl(n, x.e)]
    ELSE Sprintf8Round(x.s, n, BShr(n, 0 - x.e), 0 - x.e)

\* fmt.Sprintf("%.8f", x) of PlaceOrder: the decimal with 8 places nearest to
\* x, halves to even, as a count of 1e-8 units
Sprintf8(x) ==
    IF x.k # "fin" THEN [k |-> x.k, s |-> x.s, m |-> << >>]
    ELSE Sprintf8Scaled(x, BMul(x.m, BFromNat(100000000)))

(***************************************************************************)
(* Inputs: the command line and the venue's replies.                       *)
(***************************************************************************)
\* the longest run time, in seconds, among the "<n>s" command lines
MaxSeconds == 5

\* the largest whole total amount among the command lines
MaxAmount == 11

\* the text of a natural number
RECURSIVE Itoa(_)
Itoa(n) == IF n < 10 THEN <<Digits[n + 1]>> ELSE Itoa(n \div 10) \o <<Digits[(n % 10) + 1]>>

\* flag.Float64 of the decimal text n/d: the nearest float64
Dec(n, d) == FDiv(FFromNat(n), FFromNat(d))

One == FFromNat(1)

Hundred == FFromNat(100)

RunTimes ==
    {Itoa(n) \o <<"s">> : n \in 0 .. MaxSeconds}
        \cup {<<"0", u>> : u \in {"m", "H", "D", "W", "M"}}
        \cup {<<"5", "0", "s">>, <<"1", "H">>, <<"1", "h">>, <<"H">>}

Amounts ==
    {FNeg(One), FNeg(Dec(1, 2)), Dec(1, 2), Dec(299, 100)}
        \cup {FFromNat(n) : n \in 0 .. MaxAmount}

Sides == {<<"B", "U", "Y">>, <<"s", "e", "l", "l">>, <<"H", "O", "L", "D">>}

Symbols == {<<"B", "T", "C", "U", "S", "D", "T">>, <<"E", "T", "H", "B", "T", "C">>}

Keys == {<<"", "">>, <<"k", "">>, <<"k", "s">>}

\* what GetCurrentPrice, GetUSDTBalance and GetAssetBalance may answer
PriceReplies == {[err |-> TRUE, v |-> FZero], [err |-> FALSE, v |-> FFromNat(2)]}

USDTBalanceReplies ==
    {[err |-> TRUE, v |-> FZero], [err |-> FALSE, v |-> FZero],
     [err |-> FALSE, v |-> FFromNat(8)], [err |-> FALSE, v |-> Dec(125, 10)]}

AssetBalanceReplies ==
    {[err |-> TRUE, v |-> FZero], [err |-> FALSE, v |-> FFromNat(2)],
     [err |-> FALSE, v |-> FFromNat(50)]}

(***************************************************************************)
(* main                                                                    *)
(***************************************************************************)
VARIABLES
    pc,               \* where main is
    exit,             \* "running", "returned" (exit status 0) or "fatal" (log.Fatal)
    apiKey, secretKey, symbol, totalRunTime, totalAmount, side,   \* the flags
    duration,
    err,              \* whether the last err of main's set-up is non-nil
    sideUpper, currentPrice,
    balance,          \* usdtBalance (BUY) or baseBalance (SELL)
    availableQuote, amountToUse, totalSeconds, usdtPerSecond,
    nIntervals, intervalDuration, numberOfTrades, usdtPerTrade, i,
    venueCalls,       \* calls made to the venue so far
    lastOrder,        \* the request of the last PlaceOrder call
    dispatched,       \* PlaceOrder calls made
    placed,           \* PlaceOrder calls that returned an order
    spent,            \* exact sum of the quote quantities of the placed orders
    spentWire,        \* sum of their quoteOrderQty texts, in 1e-8 units
    sleeps,           \* time.Sleep calls made
    elapsed,          \* nanoseconds slept in all
    initialAmount,    \* amountToUse when the plan was made
    summary           \* whether the final summary line was logged

flags == <<apiKey, secretKey, symbol, totalRunTime, totalAmount, side>>

locals == <<duration, err, sideUpper, currentPrice, balance, availableQuote, amountToUse,
            totalSeconds, usdtPerSecond, nIntervals, intervalDuration,
            numberOfTrades, usdtPerTrade, i, initialAmount>>

observed == <<venueCalls, lastOrder, dispatched, placed, spent, spentWire,
              sleeps, elapsed, summary>>

vars == <<pc, exit, flags, locals, observed>>

quoteAsset == <<"U", "S", "D", "T">>

NoOrder == [quoteQuantity |-> FZero, quoteOrderQty |-> Sprintf8(FZero)]

Init ==
    /\ pc = "flags"
    /\ exit = "running"
    /\ \E k \in Keys : apiKey = k[1] /\ secretKey = k[2]
    /\ symbol \in Symbols
    /\ totalRunTime \in RunTimes
    /\ totalAmount \in Amounts
    /\ side \in Sides
    /\ duration = ZFromNat(0)
    /\ err = FALSE
    /\ sideUpper = << >>
    /\ currentPrice = FZero
    /\ balance = FZero
    /\ availableQuote = FZero
    /\ amountToUse = FZero
    /\ totalSeconds = FZero
    /\ usdtPerSecond = FZero
    /\ nIntervals = 0
    /\ intervalDuration = ZFromNat(0)
    /\ numberOfTrades = 0
    /\ usdtPerTrade = FZero
    /\ i = 0
    /\ initialAmount = FZero
    /\ venueCalls = 0
    /\ lastOrder = NoOrder
    /\ dispatched = 0
    /\ placed = 0
    /\ spent = XOf(FZero)
    /\ spentWire = << >>
    /\ sleeps = 0
    /\ elapsed = << >>
    /\ summary = FALSE

\* log.Fatal: the process exits with status 1
Fatal ==
    /\ pc' = "done"
    /\ exit' = "fatal"

\* a variant of Return that ends the process as log.Fatal does
ReturnAsFailure ==
    /\ pc' = "done"
    /\ exit' = "fatal"

\* main returns: the process exits with status 0
Return ==
    /\ pc' = "done"
    /\ exit' = "returned"

\* lines 311-314
ValidateFlags ==
    /\ pc = "flags"
    /\ IF apiKey = "" \/ secretKey = ""
       THEN Fatal
       ELSE pc' = "parse" /\ exit' = exit
    /\ UNCHANGED <<flags, locals, observed>>

\* lines 316-320
ParseTotalRunTime ==
    /\ pc = "parse"
    /\ LET r == parseDuration(totalRunTime)
       IN  /\ err' = r.err
           /\ IF r.err
              THEN Fatal /\ duration' = duration
              ELSE pc' = "side" /\ exit' = exit /\ duration' = r.duration
    /\ UNCHANGED <<flags, sideUpper, currentPrice, balance, availableQuote, amountToUse,
                   totalSeconds, usdtPerSecond, nIntervals, intervalDuration,
                   numberOfTrades, usdtPerTrade, i, initialAmount, observed>>

\* lines 329-333
ValidateSide ==
    /\ pc = "side"
    /\ sideUpper' = ToUpper(side)
    /\ IF sideUpper' # <<"B", "U", "Y">> /\ sideUpper' # <<"S", "E", "L", "L">>
       THEN Fatal
       ELSE pc' = "quote" /\ exit' = exit
    /\ UNCHANGED <<flags, duration, err, currentPrice, balance, availableQuote, amountToUse,
                   totalSeconds, usdtPerSecond, nIntervals, intervalDuration,
                   numberOfTrades, usdtPerTrade, i, initialAmount, observed>>

\* lines 335-339
DetectQuoteAsset ==
    /\ pc = "quote"
    /\ IF ~HasSuffix(symbol, quoteAsset)
       THEN Fatal
       ELSE pc' = "price" /\ exit' = exit
    /\ UNCHANGED <<flags, locals, observed>>

\* a variant of GetCurrentPrice that asks the venue again after an error
GetCurrentPriceRetried ==
    /\ pc = "price"
    /\ \E r \in PriceReplies :
          /\ err' = r.err
          /\ IF r.err
             THEN pc' = "price" /\ exit' = exit /\ currentPrice' = currentPrice
             ELSE pc' = "balance" /\ exit' = exit /\ currentPrice' = r.v
    /\ venueCalls' = venueCalls + 1
    /\ UNCHANGED <<flags, duration, sideUpper, balance, availableQuote, amountToUse,
                   totalSeconds, usdtPerSecond, nIntervals, intervalDuration,
                   numberOfTrades, usdtPerTrade, i, initialAmount,
                   lastOrder, dispatched, placed, spent, spentWire, sleeps, elapsed,
                   summary>>

\* lines 341-345
GetCurrentPrice ==
    /\ pc = "price"
    /\ \E r \in PriceReplies :
          /\ err' = r.err
          /\ IF r.err
             THEN Fatal /\ currentPrice' = currentPrice
             ELSE pc' = "balance" /\ exit' = exit /\ currentPrice' = r.v
    /\ venueCalls' = venueCalls + 1
    /\ UNCHANGED <<flags, duration, sideUpper, balance, availableQuote, amountToUse,
                   totalSeconds, usdtPerSecond, nIntervals, intervalDuration,
                   numberOfTrades, usdtPerTrade, i, initialAmount,
                   lastOrder, dispatched, placed, spent, spentWire, sleeps, elapsed,
                   summary>>

\* a variant of AvailableQuoteOf that converts the balance at the current
\* price on both sides
AvailableQuoteConverted(s, bal, price) == FMul(bal, price)

\* lines 349-362: the available quote amount of the side
AvailableQuoteOf(s, bal, price) ==
    IF s = <<"B", "U", "Y">> THEN bal ELSE FMul(bal, price)

\* lines 347-362
GetAvailableQuote ==
    /\ pc = "balance"
    /\ \E r \in (IF sideUpper = <<"B", "U", "Y">>
                 THEN USDTBalanceReplies ELSE AssetBalanceReplies) :
          /\ err' = r.err
          /\ IF r.err
             THEN Fatal /\ balance' = balance /\ availableQuote' = availableQuote
             ELSE /\ pc' = "amount"
                  /\ exit' = exit
                  /\ balance' = r.v
                  /\ availableQuote' = AvailableQuoteOf(sideUpper, r.v, currentPrice)
    /\ venueCalls' = venueCalls + 1
    /\ UNCHANGED <<flags, duration, sideUpper, currentPrice, amountToUse,
                   totalSeconds, usdtPerSecond, nIntervals, intervalDuration,
                   numberOfTrades, usdtPerTrade, i, initialAmount,
                   lastOrder, dispatched, placed, spent, spentWire, sleeps, elapsed,
                   summary>>

\* a variant of DetermineAmount that takes a total amount of 0 as specified
DetermineAmountFromZero ==
    /\ pc = "amount"
    /\ IF ~FLess(totalAmount, FZero)
       THEN IF FGreater(totalAmount, availableQuote)
            THEN Fatal /\ amountToUse' = availableQuote
            ELSE pc' = "rate" /\ exit' = exit /\ amountToUse' = totalAmount
       ELSE pc' = "rate" /\ exit' = exit /\ amountToUse' = availableQuote
    /\ UNCHANGED <<flags, duration, err, sideUpper, currentPrice, balance, availableQuote,
                   totalSeconds, usdtPerSecond, nIntervals, intervalDuration,
                   numberOfTrades, usdtPerTrade, i, initialAmount, observed>>

\* lines 364-371
DetermineAmount ==
    /\ pc = "amount"
    /\ IF FGreater(totalAmount, FZero)
       THEN IF FGreater(totalAmount, availableQuote)
            THEN Fatal /\ amountToUse' = availableQuote
            ELSE pc' = "rate" /\ exit' = exit /\ amountToUse' = totalAmount
       ELSE pc' = "rate" /\ exit' = exit /\ amountToUse' = availableQuote
    /\ UNCHANGED <<flags, duration, err, sideUpper, currentPrice, balance, availableQuote,
                   totalSeconds, usdtPerSecond, nIntervals, intervalDuration,
                   numberOfTrades, usdtPerTrade, i, initialAmount, observed>>

\* a variant of PerSecond that takes the rate of an empty span to be zero
PerSecondGuarded(amount, seconds) ==
    IF FIsZero(seconds) THEN FZero
    ELSE FDiv(MathRound(FMul(FDiv(amount, seconds), Hundred)), Hundred)

\* line 375: math.Round((amountToUse/totalSeconds)*100) / 100
PerSecond(amount, seconds) ==
    FDiv(MathRound(FMul(FDiv(amount, seconds), Hundred)), Hundred)

\* a variant of Quantized that also takes a rate of exactly 1.0
QuantizedUpToOne(rate) == ~FGreater(rate, One) /\ rate.k # "nan"

\* a variant of Quantized with the threshold at 2.0
QuantizedBelowTwo(rate) == FLess(rate, FFromNat(2))

\* line 383: usdtPerSecond < 1.0 selects the quantized schedule
Quantized(rate) == FLess(rate, One)

\* a variant of IntervalOf that rounds the quotient to the nearest second
IntervalRounded(d, n) ==
    I64Mul(FTruncZ(MathRound(FDiv(Seconds(d), FFromInt(ZFromNat(n))))), Second)

\* line 390: time.Duration(duration.Seconds()/float64(nIntervals)) * time.Second
IntervalOf(d, n) ==
    I64Mul(FTruncZ(FDiv(Seconds(d), FFromInt(ZFromNat(n)))), Second)

\* lines 373-391 and 410-418: the rate, the mode and the plan of the mode
MakePlan ==
    /\ pc = "rate"
    /\ totalSeconds' = Seconds(duration)
    /\ usdtPerSecond' = PerSecond(amountToUse, totalSeconds')
    /\ initialAmount' = amountToUse
    /\ i' = 0
    /\ IF Quantized(usdtPerSecond')
       THEN /\ nIntervals' = ZToInt(FTruncZ(amountToUse))
            /\ IF nIntervals' = 0
               THEN /\ Return
                    /\ intervalDuration' = intervalDuration
               ELSE /\ pc' = "q_loop"
                    /\ exit' = exit
                    /\ intervalDuration' = IntervalOf(duration, nIntervals')
            /\ UNCHANGED <<numberOfTrades, usdtPerTrade>>
       ELSE /\ numberOfTrades' = ZToInt(FTruncZ(totalSeconds'))
            /\ IF numberOfTrades' = 0
               THEN /\ Return
                    /\ usdtPerTrade' = usdtPerTrade
               ELSE /\ pc' = "l_loop"
                    /\ exit' = exit
                    /\ usdtPerTrade' = FDiv(amountToUse, FFromInt(ZFromNat(numberOfTrades')))
            /\ UNCHANGED <<nIntervals, intervalDuration>>
    /\ UNCHANGED <<flags, duration, err, sideUpper, currentPrice, balance, availableQuote,
                   amountToUse, observed>>

\* client.PlaceOrder(symbol, side, quoteQuantity), lines 213-262: the venue
\* answers with an order or with an error
PlaceOrder(quoteQuantity, ok) ==
    /\ lastOrder' = [quoteQuantity |-> quoteQuantity,
                     quoteOrderQty |-> Sprintf8(quoteQuantity)]
    /\ venueCalls' = venueCalls + 1
    /\ dispatched' = dispatched + 1
    /\ placed' = IF ok THEN placed + 1 ELSE placed
    /\ spent' = IF ok THEN XAdd(spent, XOf(quoteQuantity)) ELSE spent
    /\ spentWire' = IF ok THEN BAdd(spentWire, Sprintf8(quoteQuantity).m) ELSE spentWire

\* a variant of Remaining that deducts a failed order too
RemainingDeducted(amount, quoteQuantity, ok) == FSub(amount, quoteQuantity)

\* lines 398-404 and 427-433: the amount left after an order of quoteQuantity
Remaining(amount, quoteQuantity, ok) == IF ok THEN FSub(amount, quoteQuantity) ELSE amount

\* time.Sleep(d): returns at once when d <= 0
Sleep(d) ==
    /\ sleeps' = sleeps + 1
    /\ elapsed' = IF d.s = 1 THEN elapsed ELSE BAdd(elapsed, d.m)

\* lines 392-396: the loop condition and the check of the remaining amount
QuantizedLoop ==
    /\ pc = "q_loop"
    /\ IF i < nIntervals /\ ~FLess(amountToUse, One)
       THEN pc' = "q_place"
       ELSE pc' = "summary"
    /\ UNCHANGED <<exit, flags, locals, observed>>

\* lines 397-405
QuantizedPlace ==
    /\ pc = "q_place"
    /\ \E ok \in BOOLEAN :
          /\ PlaceOrder(One, ok)
          /\ amountToUse' = Remaining(amountToUse, One, ok)
    /\ pc' = "q_sleep"
    /\ UNCHANGED <<exit, flags, duration, err, sideUpper, currentPrice, balance, availableQuote,
                   totalSeconds, usdtPerSecond, nIntervals, intervalDuration,
                   numberOfTrades, usdtPerTrade, i, initialAmount,
                   sleeps, elapsed, summary>>

\* a variant of QuantizedSleep that does not advance to the next slot
QuantizedSleepRepeating ==
    /\ pc = "q_sleep"
    /\ IF i < nIntervals - 1
       THEN Sleep(intervalDuration)
       ELSE UNCHANGED <<sleeps, elapsed>>
    /\ i' = i
    /\ pc' = "q_loop"
    /\ UNCHANGED <<exit, flags, duration, err, sideUpper, currentPrice, balance, availableQuote,
                   amountToUse, totalSeconds, usdtPerSecond, nIntervals,
                   intervalDuration, numberOfTrades, usdtPerTrade, initialAmount,
                   venueCalls, lastOrder, dispatched, placed, spent, spentWire,
                   summary>>

\* lines 406-409 and the loop's i++
QuantizedSleep ==
    /\ pc = "q_sleep"
    /\ IF i < nIntervals - 1
       THEN Sleep(intervalDuration)
       ELSE UNCHANGED <<sleeps, elapsed>>
    /\ i' = i + 1
    /\ pc' = "q_loop"
    /\ UNCHANGED <<exit, flags, duration, err, sideUpper, currentPrice, balance, availableQuote,
                   amountToUse, totalSeconds, usdtPerSecond, nIntervals,
                   intervalDuration, numberOfTrades, usdtPerTrade, initialAmount,
                   venueCalls, lastOrder, dispatched, placed, spent, spentWire,
                   summary>>

\* a variant of LinearLoop without the check of the remaining amount
LinearLoopUnchecked ==
    /\ pc = "l_loop"
    /\ IF i < numberOfTrades
       THEN pc' = "l_place"
       ELSE pc' = "summary"
    /\ UNCHANGED <<exit, flags, locals, observed>>

\* lines 421-425
LinearLoop ==
    /\ pc = "l_loop"
    /\ IF i < numberOfTrades /\ ~FLess(amountToUse, usdtPerTrade)
       THEN pc' = "l_place"
       ELSE pc' = "summary"
    /\ UNCHANGED <<exit, flags, locals, observed>>

\* a variant of LinearPlace that tries again at once after a failed order
LinearPlaceRetried ==
    /\ pc = "l_place"
    /\ \E ok \in BOOLEAN :
          /\ PlaceOrder(usdtPerTrade, ok)
          /\ amountToUse' = Remaining(amountToUse, usdtPerTrade, ok)
          /\ pc' = IF ok THEN "l_sleep" ELSE "l_place"
    /\ UNCHANGED <<exit, flags, duration, err, sideUpper, currentPrice, balance, availableQuote,
                   totalSeconds, usdtPerSecond, nIntervals, intervalDuration,
                   numberOfTrades, usdtPerTrade, i, initialAmount,
                   sleeps, elapsed, summary>>

\* lines 426-434
LinearPlace ==
    /\ pc = "l_place"
    /\ \E ok \in BOOLEAN :
          /\ PlaceOrder(usdtPerTrade, ok)
          /\ amountToUse' = Remaining(amountToUse, usdtPerTrade, ok)
    /\ pc' = "l_sleep"
    /\ UNCHANGED <<exit, flags, duration, err, sideUpper, currentPrice, balance, availableQuote,
                   totalSeconds, usdtPerSecond, nIntervals, intervalDuration,
                   numberOfTrades, usdtPerTrade, i, initialAmount,
                   sleeps, elapsed, summary>>

\* lines 435-436 and the loop's i++
LinearSleep ==
    /\ pc = "l_sleep"
    /\ Sleep(Second)
    /\ i' = i + 1
    /\ pc' = "l_loop"
    /\ UNCHANGED <<exit, flags, duration, err, sideUpper, currentPrice, balance, availableQuote,
                   amountToUse, totalSeconds, usdtPerSecond, nIntervals,
                   intervalDuration, numberOfTrades, usdtPerTrade, initialAmount,
                   venueCalls, lastOrder, dispatched, placed, spent, spentWire,
                   summary>>

\* line 439, then main returns
Summary ==
    /\ pc = "summary"
    /\ summary' = TRUE
    /\ Return
    /\ UNCHANGED <<flags, locals, venueCalls, lastOrder, dispatched, placed, spent,
                   spentWire, sleeps, elapsed>>

Next ==
    \/ ValidateFlags
    \/ ParseTotalRunTime
    \/ ValidateSide
    \/ DetectQuoteAsset
    \/ GetCurrentPrice
    \/ GetAvailableQuote
    \/ DetermineAmount
    \/ MakePlan
    \/ QuantizedLoop
    \/ QuantizedPlace
    \/ QuantizedSleep
    \/ LinearLoop
    \/ LinearPlace
    \/ LinearSleep
    \/ Summary

Spec == Init /\ [][Next]_vars

\* the positions of main
Pcs == {"flags", "parse", "side", "quote", "price", "balance", "amount", "rate",
        "q_loop", "q_place", "q_sleep", "l_loop", "l_place", "l_sleep",
        "summary", "done"}

\* main moves on from where it is
Advance == pc # "done" /\ pc' \in Pcs /\ pc' # pc

\* main is one goroutine: each of its steps is a computation, a venue call
\* that the client's 10 s timeout bounds (line 67), or a time.Sleep of a
\* finite duration, so main does not stay where it is for ever. Every step
\* of Next changes pc, and every position but "done" has a step whatever the
\* values of the variables are, so this is weak fairness of Next.
FairSpec == Spec /\ WF_pc(Advance)

(***************************************************************************)
(* parseDuration on its own: the texts it is applied to                    *)
(***************************************************************************)
\* the characters before the unit: digit strings up to and beyond the int range
MagnitudeTexts ==
    {<< >>,
     <<"0">>,
     <<"1">>,
     <<"7">>,
     <<"0", "0", "7">>,
     <<"3", "0">>,
     <<"3", "5", "5", "8">>,
     <<"3", "5", "5", "9">>,
     <<"4", "0", "0", "0">>,
     <<"9", "2", "2", "3", "3", "7", "2", "0", "3", "6">>,
     <<"9", "2", "2", "3", "3", "7", "2", "0", "3", "7">>,
     <<"1", "8", "4", "4", "6", "7", "4", "4", "0", "7", "4">>,
     <<"9", "2", "2", "3", "3", "7", "2", "0", "3", "6", "8", "5", "4", "7", "7", "5", "8", "0", "7">>,
     <<"9", "2", "2", "3", "3", "7", "2", "0", "3", "6", "8", "5", "4", "7", "7", "5", "8", "0", "8">>}

\* the characters after the magnitude
UnitTexts ==
    {<<"s">>,
     <<"m">>,
     <<"h">>,
     <<"H">>,
     <<"d">>,
     <<"D">>,
     <<"w">>,
     <<"W">>,
     <<"M">>,
     <<"S">>,
     <<"m", "s">>,
     << >>}

\* texts with characters before or after a well-formed duration, or inside it
OddTexts ==
    {<<" ", "5", "s">>,
     <<"5", "s", " ">>,
     <<"-", "5", "s">>,
     <<"+", "5", "s">>,
     <<"5", ".", "5", "s">>,
     <<"5", " ", "s">>,
     <<"s", "5">>,
     <<"5", "s", "\n">>,
     <<"x", "5", "s">>,
     <<"5", "s", "x">>}

DurationTexts == {m \o u : m \in MagnitudeTexts, u \in UnitTexts} \cup OddTexts

\* main at line 316, about to parse one of the texts
ParseInit ==
    /\ pc = "parse"
    /\ exit = "running"
    /\ apiKey = "k"
    /\ secretKey = "s"
    /\ symbol = <<"B", "T", "C", "U", "S", "D", "T">>
    /\ totalRunTime \in DurationTexts
    /\ totalAmount = FNeg(One)
    /\ side = <<"B", "U", "Y">>
    /\ duration = ZFromNat(0)
    /\ err = FALSE
    /\ sideUpper = << >>
    /\ currentPrice = FZero
    /\ balance = FZero
    /\ availableQuote = FZero
    /\ amountToUse = FZero
    /\ totalSeconds = FZero
    /\ usdtPerSecond = FZero
    /\ nIntervals = 0
    /\ intervalDuration = ZFromNat(0)
    /\ numberOfTrades = 0
    /\ usdtPerTrade = FZero
    /\ i = 0
    /\ initialAmount = FZero
    /\ venueCalls = 0
    /\ lastOrder = NoOrder
    /\ dispatched = 0
    /\ placed = 0
    /\ spent = XOf(FZero)
    /\ spentWire = << >>
    /\ sleeps = 0
    /\ elapsed = << >>
    /\ summary = FALSE

ParseNext == ParseTotalRunTime

ParseSpec == ParseInit /\ [][ParseNext]_vars

(***************************************************************************)
(* main with total run times up to and beyond the range of time.Duration   *)
(***************************************************************************)
\* total run times: a few seconds, and spans of about 292 years and more
LongRunTimes ==
    {<<"3", "s">>,
     <<"5", "0", "s">>,
     <<"3", "5", "5", "8", "M">>,
     <<"3", "5", "5", "9", "M">>,
     <<"9", "2", "2", "3", "3", "7", "2", "0", "3", "7", "s">>}

\* main after flag.Parse, with one of these total run times
LongInit ==
    /\ pc = "flags"
    /\ exit = "running"
    /\ \E k \in Keys : apiKey = k[1] /\ secretKey = k[2]
    /\ symbol \in Symbols
    /\ totalRunTime \in LongRunTimes
    /\ totalAmount \in {FNeg(One), FFromNat(2), FFromNat(3)}
    /\ side \in Sides
    /\ duration = ZFromNat(0)
    /\ err = FALSE
    /\ sideUpper = << >>
    /\ currentPrice = FZero
    /\ balance = FZero
    /\ availableQuote = FZero
    /\ amountToUse = FZero
    /\ totalSeconds = FZero
    /\ usdtPerSecond = FZero
    /\ nIntervals = 0
    /\ intervalDuration = ZFromNat(0)
    /\ numberOfTrades = 0
    /\ usdtPerTrade = FZero
    /\ i = 0
    /\ initialAmount = FZero
    /\ venueCalls = 0
    /\ lastOrder = NoOrder
    /\ dispatched = 0
    /\ placed = 0
    /\ spent = XOf(FZero)
    /\ spentWire = << >>
    /\ sleeps = 0
    /\ elapsed = << >>
    /\ summary = FALSE

LongSpec == LongInit /\ [][Next]_vars

(***************************************************************************)
(* Properties                                                              *)
(***************************************************************************)
LoopPcs == {"q_loop", "q_place", "q_sleep", "l_loop", "l_place", "l_sleep"}

\* the loop was left through its end: the summary line was logged
Completed == pc = "done" /\ summary

\* x >= y
FAtLeast(x, y) == x.k # "nan" /\ y.k # "nan" /\ ~FLess(x, y)

\* the whole seconds of the parsed duration
WholeSeconds == ZToInt(I64Quo(duration, Second))

\* the span is positive
PositiveSpan == duration.s = 0 /\ duration.m # << >>

\* budget / totalSeconds rounded to 2 decimals, before the plan is made
Rate == PerSecond(amountToUse, Seconds(duration))

\* the plan of a run that has made one: the mode, sliceCount and sliceSize
QuantizedMode == FLess(usdtPerSecond, One)

SliceCount == IF QuantizedMode THEN nIntervals ELSE numberOfTrades

SliceSize == IF QuantizedMode THEN One ELSE usdtPerTrade

\* the available quote amount of the side, from the venue's answers
Available == IF sideUpper = <<"B", "U", "Y">> THEN balance ELSE FMul(balance, currentPrice)

\* C1: a run that leaves its loop has dispatched exactly sliceCount order
\* attempts, successes plus failures, whatever the venue answered.
C1_AllSlicesDispatched == Completed => dispatched = SliceCount

\* C2: an order attempt requests the slice size of the mode (usdtPerTrade in
\* the linear loop, 1.0 in the quantized loop); a failed attempt leaves
\* amountToUse unchanged, a successful one decrements it by the requested
\* amount (Go's float64 subtraction); no other step of the loops changes it.
C2_BudgetBookkeeping ==
    [][/\ pc \in {"q_place", "l_place"} =>
            /\ dispatched' = dispatched + 1
            /\ lastOrder'.quoteQuantity = (IF pc = "l_place" THEN usdtPerTrade ELSE One)
            /\ IF placed' = placed
               THEN amountToUse' = amountToUse
               ELSE /\ placed' = placed + 1
                    /\ amountToUse' = FSub(amountToUse, lastOrder'.quoteQuantity)
       /\ pc \in (LoopPcs \cup {"summary"}) \ {"q_place", "l_place"} =>
            amountToUse' = amountToUse]_vars

\* C2's case: in the linear loop, one attempt failed and one succeeded, and
\* the amount left is the budget less one slice
C2_Witness ==
    /\ pc = "l_sleep"
    /\ dispatched = 2
    /\ placed = 1
    /\ amountToUse = FSub(initialAmount, usdtPerTrade)
    /\ FLess(amountToUse, initialAmount)

\* C3: when the run ends, the amounts of the successful attempts sum to the
\* initial budget minus the final remaining budget.  (The other half of the
\* claim, that amountToUse never increases, holds.)
C3_Conservation ==
    Completed => XCmp(XAdd(spent, XOf(amountToUse)), XOf(initialAmount)) = 0

\* C4: sliceCount * sliceSize is at most the budget, and the successful
\* attempts never sum to more than the budget.
C4_NoOverspend ==
    (pc \in LoopPcs \cup {"summary"} \/ Completed) =>
        /\ XCmp(XMulNat(XOf(SliceSize), SliceCount), XOf(initialAmount)) <= 0
        /\ XCmp(spent, XOf(initialAmount)) <= 0

\* C5: every order attempt requests at least one quantum, 1.0.
C5_MinimumQuantum == dispatched > 0 => FAtLeast(lastOrder.quoteQuantity, One)

\* C6: a run that made all sliceCount attempts slept after each of them
\* except the last.
C6_NoSleepAfterFinalAttempt ==
    (Completed /\ dispatched = SliceCount) => sleeps = dispatched - 1

\* C7: with totalSeconds > 0 and a rate, rounded to 2 decimals, of at least
\* 1.0, the run enters the linear loop with sliceCount the whole seconds of the
\* duration and sliceSize budget / sliceCount; every attempt of the loop
\* requests sliceSize and is followed by a sleep of one second; no other input
\* enters the linear loop.
C7_LinearPlan ==
    [][/\ pc = "rate" =>
            IF PositiveSpan /\ FAtLeast(Rate, One)
            THEN /\ pc' = "l_loop"
                 /\ numberOfTrades' = WholeSeconds
                 /\ usdtPerTrade' = FDiv(amountToUse, FFromNat(WholeSeconds))
            ELSE pc' # "l_loop"
       /\ pc = "l_place" => lastOrder'.quoteQuantity = usdtPerTrade
       /\ pc = "l_sleep" => sleeps' = sleeps + 1 /\ elapsed' = BAdd(elapsed, Second.m)]_vars

\* C7's case: budget 100 over 50 seconds, 50 slices of 2.0, the first one sent
C7_Witness ==
    /\ pc = "l_sleep"
    /\ initialAmount = FFromNat(100)
    /\ WholeSeconds = 50
    /\ numberOfTrades = 50
    /\ usdtPerTrade = FFromNat(2)
    /\ dispatched = 1
    /\ lastOrder.quoteQuantity = FFromNat(2)

\* C8: with totalSeconds > 0 and a rate, rounded to 2 decimals, below 1.0,
\* sliceCount is the whole part of the budget; when it is positive the run
\* enters the quantized loop with an interval of floor(totalSeconds /
\* sliceCount) seconds, every attempt requests 1.0, and the sleep between two
\* attempts lasts the interval.
C8_QuantizedPlan ==
    [][/\ (pc = "rate" /\ PositiveSpan /\ FLess(Rate, One)) =>
            /\ FAtLeast(amountToUse, FFromNat(nIntervals'))
            /\ FLess(amountToUse, FFromNat(nIntervals' + 1))
            /\ pc' # "l_loop"
            /\ nIntervals' > 0 =>
                 /\ pc' = "q_loop"
                 /\ intervalDuration' =
                        ZMake(0, BMul(BFromNat(WholeSeconds \div nIntervals'), Second.m))
       /\ pc = "q_place" => lastOrder'.quoteQuantity = One
       /\ (pc = "q_sleep" /\ i < nIntervals - 1) =>
            sleeps' = sleeps + 1 /\ elapsed' = BAdd(elapsed, intervalDuration.m)]_vars

\* C8's case: budget 5 over 3600 seconds, 5 slices 720 seconds apart, two of
\* them sent with one sleep between
C8_Witness ==
    /\ pc = "q_sleep"
    /\ initialAmount = FFromNat(5)
    /\ WholeSeconds = 3600
    /\ nIntervals = 5
    /\ intervalDuration = ZMake(0, BMul(BFromNat(720), Second.m))
    /\ dispatched = 2
    /\ sleeps = 1
    /\ elapsed = BMul(BFromNat(720), Second.m)

\* C9: when the plan has no slice (quantized with budget < 1.0, or linear with
\* no whole second), the run ends at once with exit status 0: no order, no
\* sleep, amountToUse unchanged; a run that has ended takes no further step.
C9_EmptyPlan ==
    [][/\ (/\ pc = "rate"
           /\ IF FLess(Rate, One) THEN FLess(amountToUse, One) ELSE WholeSeconds = 0) =>
            /\ pc' = "done"
            /\ exit' = "returned"
            /\ amountToUse' = amountToUse
            /\ venueCalls' = venueCalls
            /\ dispatched' = 0
            /\ sleeps' = 0
       /\ pc # "done"]_vars

\* C9's case: budget 0.5 over 3600 seconds ended without an order
C9_Witness ==
    /\ pc = "done"
    /\ exit = "returned"
    /\ initialAmount = Dec(1, 2)
    /\ WholeSeconds = 3600
    /\ FLess(usdtPerSecond, One)
    /\ nIntervals = 0
    /\ dispatched = 0
    /\ sleeps = 0
    /\ amountToUse = initialAmount

\* C10: a total amount given on the command line (> 0) that exceeds the
\* available quote amount of the side ends the run with log.Fatal; a run
\* that ends with log.Fatal has dispatched no order; in the loops the budget
\* is at most the available quote amount.
C10_InsufficientFunds ==
    /\ [][(/\ pc = "amount"
           /\ FGreater(totalAmount, FZero)
           /\ FGreater(totalAmount, Available)) =>
            (pc' = "done" /\ exit' = "fatal" /\ dispatched' = 0)]_vars
    /\ [](exit = "fatal" => dispatched = 0)
    /\ [](pc \in LoopPcs => FAtLeast(Available, initialAmount))

\* C10's case: a sale of 5 against a base balance worth 4 ended with log.Fatal
C10_Witness ==
    /\ pc = "done"
    /\ exit = "fatal"
    /\ sideUpper = <<"S", "E", "L", "L">>
    /\ venueCalls = 2
    /\ totalAmount = FFromNat(5)
    /\ Available = FFromNat(4)
    /\ dispatched = 0

\* the run was ended by log.Fatal
Aborted == pc = "done" /\ exit = "fatal"

\* the steps of main before the budget is determined
PreflightPcs == {"flags", "parse", "side", "quote", "price", "balance"}

\* C11: a total run time that does not parse, a side that is neither BUY nor
\* SELL in any letter case, and a symbol without the USDT quote asset each end
\* the run by log.Fatal in that very step with no venue call made; an error
\* of the price query or of the balance query ends it by log.Fatal after that
\* single call; no pre-flight step dispatches an order, and a run ended by
\* log.Fatal has dispatched none.
C11_PreflightFatal ==
    /\ [][/\ (pc = "parse" /\ parseDuration(totalRunTime).err)
              => (Aborted' /\ venueCalls' = 0)
          /\ (pc = "side" /\ ToUpper(side) \notin {<<"B", "U", "Y">>, <<"S", "E", "L", "L">>})
              => (Aborted' /\ venueCalls' = 0)
          /\ (pc = "quote" /\ ~HasSuffix(symbol, quoteAsset))
              => (Aborted' /\ venueCalls' = 0)
          /\ (pc \in {"price", "balance"})
              => (/\ venueCalls' = venueCalls + 1
                  /\ (err' => Aborted')
                  /\ (~err' => (~Aborted' /\ pc' # pc)))
          /\ (pc \in PreflightPcs) => (dispatched' = 0 /\ placed' = 0)]_vars
    /\ [](Aborted => dispatched = 0)

\* the balance query failed after the price query succeeded
C11_Witness ==
    Aborted /\ err /\ venueCalls = 2 /\ dispatched = 0 /\ sideUpper = <<"S", "E", "L", "L">>

\* the units the switch of parseDuration has a case for
Units == {"s", "m", "H", "D", "W", "M"}

\* one or more digits followed by exactly one unit
WellFormed(text) ==
    /\ Len(text) >= 2
    /\ text[Len(text)] \in Units
    /\ \A k \in 1 .. Len(text) - 1 : IsDigit(text[k])

\* the seconds of one unit: the products of the cases of the switch
UnitSeconds(unit) ==
    IF unit = "s" THEN 1
    ELSE IF unit = "m" THEN 60
    ELSE IF unit = "H" THEN 60 * 60
    ELSE IF unit = "D" THEN 24 * 60 * 60
    ELSE IF unit = "W" THEN 7 * 24 * 60 * 60
    ELSE 30 * 24 * 60 * 60

\* magnitude times the seconds of the unit, as an unbounded natural
ExactSeconds(text) ==
    BMul(DecimalValue(SubSeq(text, 1, Len(text) - 1)),
         BFromNat(UnitSeconds(text[Len(text)])))

\* C12: parseDuration accepts exactly the well-formed texts: a text is
\* rejected if and only if it is not one or more digits followed by one of
\* s, m, H, D, W, M; a rejected text yields no span and ends the run.
C12_AcceptsExactlyWellFormed ==
    [][(pc = "parse")
          => (/\ err' <=> ~WellFormed(totalRunTime)
              /\ err' => (Aborted' /\ duration' = ZFromNat(0)))]_vars

\* C13: for every well-formed text of magnitude n and unit u parseDuration
\* succeeds with a span of exactly n * k(u) seconds, which is positive for
\* n > 0 as is the totalSeconds computed from it.
C13_ExactWholeSeconds ==
    [][(pc = "parse" /\ WellFormed(totalRunTime))
          => (/\ ~err'
              /\ duration' = ZMake(0, BMul(ExactSeconds(totalRunTime), Second.m))
              /\ ExactSeconds(totalRunTime) # << >>
                    => FGreater(Seconds(parseDuration(totalRunTime).duration), FZero))]_vars

\* the loop is left for the summary before its last slot, with nothing dispatched
StopsEarly ==
    /\ pc' = "summary"
    /\ exit' = "running"
    /\ dispatched' = dispatched
    /\ venueCalls' = venueCalls
    /\ dispatched < SliceCount

\* C14: when an attempt starts with less left than the amount it would
\* request (usdtPerTrade in the LINEAR loop, 1.0 in the QUANTIZED loop), the
\* loop is left at once with no order dispatched and fewer attempts made than
\* planned; the summary step then logs the summary and ends the run with
\* exit status 0 without dispatching, and every run that stopped before its
\* last slot has ended that way.
C14_EarlyStopIsCompletion ==
    /\ [][/\ (pc = "l_loop" /\ i < numberOfTrades /\ FLess(amountToUse, usdtPerTrade))
              => StopsEarly
          /\ (pc = "q_loop" /\ i < nIntervals /\ FLess(amountToUse, One))
              => StopsEarly
          /\ (pc = "summary")
              => (Completed' /\ exit' = "returned" /\ dispatched' = dispatched)]_vars
    /\ []((pc = "done" /\ exit = "returned" /\ i < SliceCount)
             => (summary /\ dispatched = i))

\* a LINEAR run that stopped before its last slot and ended normally
C14_Witness ==
    /\ Completed
    /\ exit = "returned"
    /\ numberOfTrades > 0
    /\ i < numberOfTrades
    /\ dispatched = i
    /\ FLess(amountToUse, usdtPerTrade)

\* C15: with every venue call returning, every run eventually ends (main
\* returns or log.Fatal exits), and at no time has it dispatched more orders
\* than the plan has slices.
C15_Terminates ==
    /\ <>(pc = "done")
    /\ [](dispatched <= SliceCount)

\* a run that has ended after dispatching every slice of a plan of several
C15_Witness ==
    pc = "done" /\ exit = "returned" /\ SliceCount > 1 /\ dispatched = SliceCount

PlacePcs == {"q_place", "l_place"}

SleepPcs == {"q_sleep", "l_sleep"}

\* the sleep between two attempts: intervalDuration, or one second
Interval == IF QuantizedMode THEN intervalDuration ELSE Second

\* C16: PlaceOrder is called and returns within one step of the one goroutine;
\* the order of slot i is dispatched when exactly i orders were dispatched and
\* i sleeps of the full interval have elapsed; an attempt, failed or not, is
\* followed by the sleep step and the next slot, never by another dispatch in
\* the same slot; no other step dispatches.
C16_OneDispatchPerSlot ==
    /\ [][/\ (pc \in PlacePcs)
              => (dispatched' = dispatched + 1 /\ pc' \in SleepPcs /\ i' = i)
          /\ (pc \notin PlacePcs) => (dispatched' = dispatched)
          /\ (pc \in SleepPcs)
              => (/\ i' = i + 1
                  /\ pc' \notin PlacePcs
                  /\ (i' < SliceCount)
                      => (sleeps' = sleeps + 1 /\ elapsed' = BAdd(elapsed, Interval.m)))]_vars
    /\ []((pc \in PlacePcs)
             => (/\ dispatched = i
                 /\ sleeps = i
                 /\ Interval.s = 0
                 /\ elapsed = BMul(Interval.m, BFromNat(i))))
    /\ []((pc \in SleepPcs) => (dispatched = i + 1))

\* the third slot's order is about to be dispatched after a failed attempt
C16_Witness ==
    pc = "q_place" /\ i = 2 /\ placed < dispatched /\ sleeps = 2 /\ elapsed # << >>

\* the total run time parsed to a span of no length
ZeroSpan == duration = ZFromNat(0)

\* C17: with a span of 0 seconds the planning step divides by zero without
\* failing (the rate is +Inf, or NaN for a budget of 0), plans no slice and
\* returns with exit status 0, for every budget; nothing is dispatched, no
\* venue call is made and nothing is slept.
C17_ZeroSpanEmptyPlan ==
    /\ [][(pc = "rate" /\ ZeroSpan)
              => (/\ pc' = "done"
                  /\ exit' = "returned"
                  /\ usdtPerSecond'.k = (IF FIsZero(amountToUse) THEN "nan" ELSE "inf")
                  /\ nIntervals' = 0
                  /\ numberOfTrades' = 0
                  /\ dispatched' = 0
                  /\ venueCalls' = venueCalls
                  /\ sleeps' = 0)]_vars
    /\ []((pc \notin PreflightPcs /\ ZeroSpan) => (pc \in {"amount", "rate", "done"}))

\* a run with a positive budget over a span of 0 months has returned
C17_Witness ==
    /\ pc = "done"
    /\ exit = "returned"
    /\ ZeroSpan
    /\ totalRunTime = <<"0", "M">>
    /\ FGreater(amountToUse, FZero)
    /\ usdtPerSecond.k = "inf"
    /\ dispatched = 0

\* C18: at the start of each of the planned iterations the amount left is at
\* least the amount about to be requested (usdtPerTrade in the LINEAR loop,
\* 1.0 in the QUANTIZED loop), so the loop is never left for lack of budget.
C18_EarlyStopUnreachable ==
    (pc \in {"q_loop", "l_loop"} /\ i < SliceCount) => FAtLeast(amountToUse, SliceSize)

\* the whole part of the budget the plan was made from
WholeBudget == ZToInt(FTruncZ(initialAmount))

\* C19: a run that left its loop with every dispatched order placed ends,
\* in the LINEAR mode, with nothing left, and in the QUANTIZED mode with the
\* budget less its whole part left, which is at least 0 and less than 1.0.
C19_FullDeployment ==
    (Completed /\ placed = dispatched)
        => IF QuantizedMode
           THEN /\ XCmp(XAdd(XOf(amountToUse), XOf(FFromNat(WholeBudget))),
                        XOf(initialAmount)) = 0
                /\ ~FIsNegative(amountToUse)
                /\ FLess(amountToUse, One)
           ELSE FIsZero(amountToUse)

QuantizedPcs == {"q_loop", "q_place", "q_sleep"}

\* C20: a quantized plan of at least one slice, made from a span of a
\* positive number of whole seconds, has an interval of the whole seconds
\* divided by the slices, rounded down, which is at least one second; so
\* before the order of slot i at least i seconds have been slept.
C20_PositiveSpacing ==
    /\ [][(pc = "rate" /\ pc' = "q_loop")
              => (/\ PositiveSpan
                  /\ nIntervals' > 0
                  /\ WholeSeconds \div nIntervals' >= 1
                  /\ intervalDuration'
                        = I64Mul(ZFromNat(WholeSeconds \div nIntervals'), Second))]_vars
    /\ []((pc \in QuantizedPcs)
             => (intervalDuration.s = 0 /\ BCmp(intervalDuration.m, Second.m) >= 0))
    /\ []((pc = "q_place") => (BCmp(elapsed, BMul(Second.m, BFromNat(i))) >= 0))

\* the second order of a plan whose interval is one second is about to be
\* dispatched
C20_Witness ==
    pc = "q_place" /\ i = 1 /\ intervalDuration = Second /\ elapsed = Second.m /\ nIntervals > 1

\* the plan was made and has at least one slice
Planned == pc \in LoopPcs \cup {"summary"} \/ Completed

\* C21: in every run with a plan, the nanoseconds slept between and after
\* the attempts are at most the span the total run time parsed to, and in
\* the LINEAR mode at most numberOfTrades seconds.
C21_ScheduleFits ==
    Planned
        => /\ duration.s = 0
           /\ BCmp(elapsed, duration.m) <= 0
           /\ ~QuantizedMode
                 => BCmp(elapsed, BMul(Second.m, BFromNat(numberOfTrades))) <= 0

\* C22: the amount step takes the total amount as the budget only when it is
\* greater than 0 (and then only if the available quote amount covers it); a
\* total amount of 0 or below, like the flag's default of -1, makes the
\* budget the whole available quote amount, and the run goes on to plan it.
C22_BudgetOverrideThreshold ==
    [][(pc = "amount")
          => (/\ (FGreater(totalAmount, FZero) /\ pc' = "rate")
                  => (amountToUse' = totalAmount)
              /\ (~FGreater(totalAmount, FZero))
                  => (amountToUse' = Available /\ pc' = "rate" /\ exit' = "running"))]_vars

\* with a total amount of 0 the whole balance of 8 was placed
C22_Witness ==
    /\ Completed
    /\ FIsZero(totalAmount)
    /\ sideUpper = <<"B", "U", "Y">>
    /\ balance = FFromNat(8)
    /\ initialAmount = balance
    /\ placed = 8
    /\ FIsZero(amountToUse)

====
